---- MODULE Spec2Model ----
(***************************************************************************)
(* nexus-agent: the request-turn pipeline (LLMHandler.Chat / ChatStream),  *)
(* the Tracer and the trace / step / session / message repositories, the   *)
(* upstream gRPC client's stream loop and the ActivityTracker.             *)
(*                                                                         *)
(* Conventions.  Every repository call is one SQL statement and therefore  *)
(* one atomic step.  float64 costs are counted in integral cost units.     *)
(* time.Now() is the variable now.  A repository call made with a          *)
(* cancelled context fails (database/sql refuses a cancelled context       *)
(* before it takes a connection); with a live context it may still fail    *)
(* while the fault budget MaxFaults is not used up.                        *)
(***************************************************************************)
EXTENDS Integers, Sequences, FiniteSets, TLC

\* ------------------------------------------------------------------ bounds
MaxRecorders == 2      \* concurrent direct callers of the Tracer
MaxTime == 4           \* last value of the clock
MaxFaults == 1         \* injected repository failures
MaxChunks == 2         \* chunks the upstream sends before it must end the stream
MaxUsage == 2          \* largest token count the upstream reports
MaxCost == 1           \* largest cost the upstream reports
MaxSteps == 3          \* steps the direct callers record on their trace
MaxBudgetCalls == 3    \* UpdateBudget calls of the concurrent turns in SpecBudget
MaxEnds == 2           \* EndTrace calls on the direct trace
MaxTraces == 3         \* traces of the session a cost analysis reads
QuotaTokens == 1       \* budget_total_tokens of the session (0: no quota)
QuotaCost == 1         \* budget_total_cost of the session (0: no quota)

\* ------------------------------------------- program constants (scaled time)
\* getDefaultStreamTimeoutConfig: 30 s and 30 min, here in clock ticks with
\* 1 < ActivityTimeout < MaxTotalTimeout kept.
ActivityTimeout == 2
MaxTotalTimeout == 3

Turns == {"t1"}                   \* the turn under study (its trace takes its name)
Recorders == 1..MaxRecorders
DirectTrace == "d1"               \* the trace the direct callers work on
TraceIds == Turns \cup {DirectTrace}
SessionIds == {"s1"}              \* rows of the sessions table
NoSession == "missing"            \* a well-formed id with no row
BadSessionId == "malformed"       \* uuid.Parse fails
Null == -1                        \* SQL NULL / Go nil for a time or a number
NoTrace == "nil"                  \* the handler's trace pointer when StartTrace failed

VARIABLES
    now,        \* wall clock
    faults,     \* repository failures injected so far
    sessions,   \* sessions table: budget columns per session id
    messages,   \* messages table: set of rows
    traces,     \* traces table: row per trace id ("none": no row)
    steps,      \* execution_steps table: rows per trace id, in insert order
    turn,       \* per handler invocation: locals of Chat / ChatStream
    rec,        \* per direct Tracer caller: locals of its RecordStep call
    added,      \* history of the UpdateBudget calls on session s1 (see Account)
    endLog,     \* history: the last direct EndTrace call, the row before and after
    client,     \* the GRPCLLMClient and the locals of the calls made on it
    call        \* one call of a stateless service: its inputs, position and results

vars == <<now, faults, sessions, messages, traces, steps, turn, rec, added, endLog, client, call>>

\* ------------------------------------------------------------ small helpers
RECURSIVE SumTokens(_)
SumTokens(ss) == IF ss = <<>> THEN 0 ELSE Head(ss).costTokens + SumTokens(Tail(ss))

RECURSIVE SumCost(_)
SumCost(ss) == IF ss = <<>> THEN 0 ELSE Head(ss).costAPI + SumCost(Tail(ss))

SeqNums(ss) == {ss[i].sequence : i \in DOMAIN ss}

\* ------------------------------------------------------------- repositories
NoTraceRow ==
    [status |-> "none", sessionId |-> "", agentName |-> "", startedAt |-> Null,
     endedAt |-> Null, costTokens |-> 0, costAPI |-> 0, metadata |-> "",
     error |-> "", statusWrites |-> 0]

\* model.Trace as StartTrace builds it
NewTrace(sid, agent, t) ==
    [status |-> "running", sessionId |-> sid, agentName |-> agent, startedAt |-> t,
     endedAt |-> Null, costTokens |-> 0, costAPI |-> 0, metadata |-> "{}",
     error |-> "", statusWrites |-> 0]

\* traceRepository.Create
TraceCreate(tr, tid, row) == [tr EXCEPT ![tid] = row]

\* traceRepository.UpdateStatus: UPDATE traces SET status, ended_at WHERE id
\* (no row: nothing changes and no error; statusWrites counts the writes)
TraceUpdateStatus(tr, tid, status, endedAt) ==
    IF tr[tid].status = "none" THEN tr
    ELSE [tr EXCEPT ![tid].status = status, ![tid].endedAt = endedAt,
                    ![tid].statusWrites = @ + 1]

\* traceRepository.UpdateStatusWithError
TraceUpdateStatusWithError(tr, tid, status, endedAt, err) ==
    IF tr[tid].status = "none" THEN tr
    ELSE [tr EXCEPT ![tid].status = status, ![tid].endedAt = endedAt,
                    ![tid].error = err, ![tid].statusWrites = @ + 1]

\* variant: an UPDATE that stores the amounts instead of accumulating them
TraceUpdateCostSet(tr, tid, tokens, apiCost) ==
    IF tr[tid].status = "none" THEN tr
    ELSE [tr EXCEPT ![tid].costTokens = tokens, ![tid].costAPI = apiCost]

\* traceRepository.UpdateCost: one UPDATE ... SET cost = COALESCE(cost,0) + ?
TraceUpdateCost(tr, tid, tokens, apiCost) ==
    IF tr[tid].status = "none" THEN tr
    ELSE [tr EXCEPT ![tid].costTokens = @ + tokens, ![tid].costAPI = @ + apiCost]

\* model.ExecutionStep
Step(seq, type, stage, tokens, apiCost) ==
    [sequence |-> seq, stepType |-> type, stage |-> stage,
     costTokens |-> tokens, costAPI |-> apiCost]

\* stepRepository.Create: plain INSERT, the sequence is stored as supplied
StepCreate(ss, tid, st) == [ss EXCEPT ![tid] = Append(@, st)]

\* TracerImplService.getNextSequence: len(GetByTraceID) + 1
getNextSequence(ss, tid) == Len(ss[tid]) + 1

\* variant: an UPDATE that stores the amounts instead of adding them
UpdateBudgetSet(se, sid, tokensUsed, costUsed) ==
    IF sid \notin DOMAIN se THEN se
    ELSE [se EXCEPT ![sid].usedTokens = tokensUsed, ![sid].usedCost = costUsed]

\* variant: an UPDATE that stops the counters at a positive quota
UpdateBudgetCapped(se, sid, tokensUsed, costUsed) ==
    IF sid \notin DOMAIN se THEN se
    ELSE LET b == se[sid]
             tok == b.usedTokens + tokensUsed
             cst == b.usedCost + costUsed
         IN [se EXCEPT ![sid].usedTokens = IF b.totalTokens > 0 /\ tok > b.totalTokens
                                            THEN b.totalTokens ELSE tok,
                       ![sid].usedCost = IF b.totalCost > 0 /\ cst > b.totalCost
                                          THEN b.totalCost ELSE cst]

\* sessionRepository.UpdateBudget: one UPDATE ... SET used = used + ?
UpdateBudget(se, sid, tokensUsed, costUsed) ==
    IF sid \notin DOMAIN se THEN se
    ELSE [se EXCEPT ![sid].usedTokens = @ + tokensUsed,
                    ![sid].usedCost = @ + costUsed]

\* variant: a check that admits every amount
CheckBudgetAdmitAll(session, additionalTokens, additionalCost) == "ok"

\* SessionService.CheckBudget (no caller in the turn path)
CheckBudget(session, additionalTokens, additionalCost) ==
    IF session.totalTokens > 0
       /\ session.usedTokens + additionalTokens > session.totalTokens
    THEN "token budget exceeded"
    ELSE IF session.totalCost > 0
            /\ session.usedCost + additionalCost > session.totalCost
    THEN "cost budget exceeded"
    ELSE "ok"

\* history of UpdateBudget calls: how many were made, how many ran, the sums
\* they added, how many of those CheckBudget would have refused, and the
\* counters the session started with
NoneAdded(usedTokens, usedCost) ==
    [calls |-> 0, ran |-> 0, tokens |-> 0, cost |-> 0, unchecked |-> 0,
     initTokens |-> usedTokens, initCost |-> usedCost]

Account(a, session, tokens, cost, ok) ==
    IF ~ok THEN [a EXCEPT !.calls = @ + 1]
    ELSE [a EXCEPT !.calls = @ + 1, !.ran = @ + 1,
                   !.tokens = @ + tokens, !.cost = @ + cost,
                   !.unchecked = IF CheckBudget(session, tokens, cost) = "ok"
                                 THEN @ ELSE @ + 1]

\* outcomes of one repository call: TRUE = the statement ran
DBOutcomesAfter(ctxDone, charged) ==
    IF ctxDone THEN {FALSE}
    ELSE IF faults + charged < MaxFaults THEN {TRUE, FALSE} ELSE {TRUE}

DBOutcomes(ctxDone) == DBOutcomesAfter(ctxDone, 0)

\* what a failed call adds to the fault budget (a cancelled context is no fault)
Charge(ctxDone, ok) == IF ok \/ ctxDone THEN 0 ELSE 1

\* ------------------------------------------------------------------- Tracer
\* TracerImplService.StartTrace: the row it inserts (metadata is the empty JSON;
\* the handler fills Metadata of the returned struct only, never the row)
StartTrace(tr, tid, sid, agent, t) == TraceCreate(tr, tid, NewTrace(sid, agent, t))

\* how one RecordStep call can go: "ok", or the statement that fails
RecordStepModes(ctxDone, st) ==
    LET first == IF st.sequence = 0 THEN "failSeq" ELSE "failInsert"
        all == {"failInsert"}
               \cup (IF st.sequence = 0 THEN {"failSeq"} ELSE {})
               \cup (IF st.costTokens > 0 \/ st.costAPI > 0 THEN {"failCost"} ELSE {})
    IN IF ctxDone THEN {first}
       ELSE {"ok"} \cup (IF faults < MaxFaults THEN all ELSE {})

\* TracerImplService.RecordStep run to completion: sequence 0 is replaced by
\* getNextSequence, the step is inserted, then the trace cost is accumulated when
\* the step declares cost; err is what the call returns
RecordStep(tr, ss, st0, tid, mode) ==
    IF mode = "failSeq"
    THEN [traces |-> tr, steps |-> ss, err |-> "failed to get sequence"]
    ELSE LET st == IF st0.sequence = 0
                   THEN [st0 EXCEPT !.sequence = getNextSequence(ss, tid)]
                   ELSE st0
         IN IF mode = "failInsert"
            THEN [traces |-> tr, steps |-> ss, err |-> "failed to record step"]
            ELSE IF st.costTokens > 0 \/ st.costAPI > 0
            THEN IF mode = "failCost"
                 THEN [traces |-> tr, steps |-> StepCreate(ss, tid, st),
                       err |-> "failed to update trace cost"]
                 ELSE [traces |-> TraceUpdateCost(tr, tid, st.costTokens, st.costAPI),
                       steps |-> StepCreate(ss, tid, st), err |-> ""]
            ELSE [traces |-> tr, steps |-> StepCreate(ss, tid, st), err |-> ""]

\* variant: a RecordSnapshot that stores nothing
RecordSnapshotDropped(ss, tid, stage, ok) == ss

\* TracerImplService.RecordSnapshot: a step of type snapshot; the struct's
\* Sequence field is never set, so the row carries Go's zero value
RecordSnapshot(ss, tid, stage, ok) ==
    IF ok THEN StepCreate(ss, tid, Step(0, "snapshot", stage, 0, 0)) ELSE ss

\* TracerImplService.EndTrace: endTime := time.Now(); UpdateStatus
EndTrace(tr, tid, status, t, ok) ==
    IF ok THEN TraceUpdateStatus(tr, tid, status, t) ELSE tr

\* TracerImplService.EndTraceWithError: UpdateStatusWithError at time.Now()
EndTraceWithError(tr, tid, status, t, err, ok) ==
    IF ok THEN TraceUpdateStatusWithError(tr, tid, status, t, err) ELSE tr

\* ------------------------------------------------------------ turn handlers
IdleTurn ==
    [pc |-> "idle", kind |-> "none", req |-> "none", sid |-> "",
     trace |-> NoTrace, meta |-> "", http |-> 0, code |-> "", sse |-> <<>>,
     totalTokens |-> 0, totalCost |-> 0, content |-> 0, chunks |-> 0,
     upstream |-> "none", err |-> "nil", clientGone |-> FALSE,
     supDone |-> FALSE, cancelBy |-> "none", poller |-> "none",
     lastActivity |-> Null, totalStart |-> Null,
     savedUser |-> FALSE, savedAsst |-> FALSE, budgetOK |-> FALSE,
     due |-> FALSE, missed |-> FALSE, delivered |-> <<>>]

\* request classes: what steps 1-4 of the pipeline can see of a request
ReqClasses == {"ok", "no_config", "bad_session_id", "no_session", "bad_body", "bad_config"}

AgentName(kind) == IF kind = "unary" THEN "simple_chat" ELSE "stream_chat"
Source(kind) == IF kind = "unary" THEN "http_api" ELSE "http_api_stream"

Finish(r, http, code) == [r EXCEPT !.pc = "done", !.http = http, !.code = code]

\* Chat / ChatStream up to and including StartTrace: uuid.Parse, then the trace
\* row is inserted before the session is looked up
Begin(t, kind, req) ==
    /\ turn[t].pc = "idle"
    /\ LET r == [turn[t] EXCEPT !.kind = kind, !.req = req,
                                !.sid = IF req = "no_session" THEN NoSession
                                        ELSE IF req = "bad_session_id" THEN BadSessionId
                                        ELSE "s1"]
       IN IF req = "bad_session_id"
          THEN /\ turn' = [turn EXCEPT ![t] = Finish(r, 400, "INVALID_SESSION_ID")]
               /\ UNCHANGED <<traces, faults>>
          ELSE \E ok \in DBOutcomes(FALSE) :
                 /\ faults' = faults + Charge(FALSE, ok)
                 /\ traces' = IF ok THEN StartTrace(traces, t, r.sid, AgentName(kind), now)
                              ELSE traces
                 /\ turn' = [turn EXCEPT ![t] =
                        [r EXCEPT !.pc = "validate",
                                  !.trace = IF ok THEN t ELSE NoTrace,
                                  !.meta = IF ok THEN Source(kind) ELSE ""]]
    /\ UNCHANGED <<now, sessions, messages, steps, rec, added, endLog, client, call>>

\* sessionService.Get, ShouldBindJSON, ValidateConfig: the three rejections
\* return without touching the trace opened by Begin
Validate(t) ==
    /\ turn[t].pc = "validate"
    /\ LET r == turn[t] IN
       \E ok \in DBOutcomes(r.clientGone) :
         /\ faults' = faults + Charge(r.clientGone, ok)
         /\ turn' = [turn EXCEPT ![t] =
              IF ~ok \/ r.sid \notin DOMAIN sessions
              THEN Finish(r, 404, "SESSION_NOT_FOUND")
              ELSE IF r.req = "bad_body" THEN Finish(r, 400, "INVALID_INPUT")
              ELSE IF r.req = "bad_config" THEN Finish(r, 400, "INVALID_CONFIG")
              ELSE [r EXCEPT !.pc = "pre"]]
    /\ UNCHANGED <<now, sessions, messages, traces, steps, rec, added, endLog, client, call>>

\* pre_llm snapshot; with a trace and no provider/model in the request the
\* handler dereferences the nil llmConfig and panics
PreSnapshot(t) ==
    /\ turn[t].pc = "pre"
    /\ LET r == turn[t]
           next == IF r.kind = "unary" THEN "call" ELSE "open"
       IN IF r.trace = NoTrace
          THEN /\ turn' = [turn EXCEPT ![t].pc = next]
               /\ UNCHANGED <<steps, faults>>
          ELSE IF r.req = "no_config"
          THEN /\ turn' = [turn EXCEPT ![t] = [Finish(r, 500, "PANIC") EXCEPT !.pc = "panicked"]]
               /\ UNCHANGED <<steps, faults>>
          ELSE \E ok \in DBOutcomes(r.clientGone) :
                 /\ faults' = faults + Charge(r.clientGone, ok)
                 /\ steps' = RecordSnapshot(steps, r.trace, "pre_llm", ok)
                 /\ turn' = [turn EXCEPT ![t].pc = next]
    /\ UNCHANGED <<now, sessions, messages, traces, rec, added, endLog, client, call>>

\* the stage that follows stage pc of a turn whose upstream call succeeded:
\* Chat records step, post_llm, EndTrace, then messages and budget; ChatStream
\* saves the message and the budget first, then post_llm and EndTrace, then done
After(r, pc) ==
    IF r.kind = "unary"
    THEN CASE pc = "call" -> IF r.trace = NoTrace THEN "save" ELSE "step"
           [] pc = "step" -> "post"
           [] pc = "post" -> "end"
           [] pc = "end" -> "save"
           [] pc = "save" -> "budget"
           [] OTHER -> "done"
    ELSE CASE pc = "streaming" -> "save"
           [] pc = "save" -> "budget"
           [] pc = "budget" -> IF r.trace = NoTrace THEN "emit_done" ELSE "post"
           [] pc = "post" -> "end"
           [] pc = "end" -> "emit_done"
           [] OTHER -> "done"

\* Chat: llmService.ExecuteChat under the request context
ChatExecute(t) ==
    /\ turn[t].pc = "call"
    /\ LET r == turn[t] IN
       \/ /\ turn' = [turn EXCEPT ![t] = [r EXCEPT !.pc = "fail", !.upstream = "rpc_error"]]
       \/ /\ ~r.clientGone
          /\ \E tok \in 0..MaxUsage, cost \in 0..MaxCost :
               turn' = [turn EXCEPT ![t] =
                   [r EXCEPT !.pc = After(r, "call"), !.upstream = "ok",
                             !.totalTokens = tok, !.totalCost = cost, !.content = 1]]
    /\ UNCHANGED <<now, faults, sessions, messages, traces, steps, rec, added, endLog, client, call>>

\* Chat: upstream failure, EndTrace(failed) when a trace is open, HTTP 500
ChatFail(t) ==
    /\ turn[t].pc = "fail"
    /\ LET r == turn[t] IN
       \E ok \in (IF r.trace = NoTrace THEN {TRUE} ELSE DBOutcomes(r.clientGone)) :
         /\ faults' = faults + Charge(r.clientGone, ok)
         /\ traces' = IF r.trace = NoTrace THEN traces
                      ELSE EndTrace(traces, r.trace, "failed", now, ok)
         /\ turn' = [turn EXCEPT ![t] = Finish(r, 500, "CHAT_EXECUTION_FAILED")]
    /\ UNCHANGED <<now, sessions, messages, steps, rec, added, endLog, client, call>>

\* Chat: the llm_call step, built with Sequence: 1
ChatRecordStep(t) ==
    /\ turn[t].pc = "step"
    /\ LET r == turn[t]
           st == Step(1, "llm_call", "", r.totalTokens, r.totalCost)
       IN \E mode \in RecordStepModes(r.clientGone, st) :
            LET res == RecordStep(traces, steps, st, r.trace, mode) IN
            /\ faults' = faults + Charge(r.clientGone, mode = "ok")
            /\ traces' = res.traces
            /\ steps' = res.steps
            /\ turn' = [turn EXCEPT ![t].pc = After(r, "step")]
    /\ UNCHANGED <<now, sessions, messages, rec, added, endLog, client, call>>

\* post_llm snapshot (both handlers)
PostSnapshot(t) ==
    /\ turn[t].pc = "post"
    /\ LET r == turn[t] IN
       \E ok \in DBOutcomes(r.clientGone) :
         /\ faults' = faults + Charge(r.clientGone, ok)
         /\ steps' = RecordSnapshot(steps, r.trace, "post_llm", ok)
         /\ turn' = [turn EXCEPT ![t].pc = After(r, "post")]
    /\ UNCHANGED <<now, sessions, messages, traces, rec, added, endLog, client, call>>

\* EndTrace(completed) (both handlers)
EndCompleted(t) ==
    /\ turn[t].pc = "end"
    /\ LET r == turn[t] IN
       \E ok \in DBOutcomes(r.clientGone) :
         /\ faults' = faults + Charge(r.clientGone, ok)
         /\ traces' = EndTrace(traces, r.trace, "completed", now, ok)
         /\ turn' = [turn EXCEPT ![t].pc = After(r, "end")]
    /\ UNCHANGED <<now, sessions, messages, steps, rec, added, endLog, client, call>>

\* messageService.SaveMessage: Chat saves the request's messages and the
\* assistant message, ChatStream the assistant message only
SaveMessages(t) ==
    /\ turn[t].pc = "save"
    /\ LET r == turn[t] IN
       \E okU \in (IF r.kind = "unary" THEN DBOutcomes(r.clientGone) ELSE {FALSE}) :
       \E okA \in DBOutcomesAfter(r.clientGone,
                        IF r.kind = "unary" THEN Charge(r.clientGone, okU) ELSE 0) :
         /\ faults' = faults + (IF r.kind = "unary" THEN Charge(r.clientGone, okU) ELSE 0)
                              + Charge(r.clientGone, okA)
         /\ messages' = messages
                \cup (IF okU THEN {[sid |-> r.sid, role |-> "user", turn |-> t]} ELSE {})
                \cup (IF okA THEN {[sid |-> r.sid, role |-> "assistant", turn |-> t]} ELSE {})
         /\ turn' = [turn EXCEPT ![t] =
                [r EXCEPT !.pc = After(r, "save"), !.savedUser = okU, !.savedAsst = okA]]
    /\ UNCHANGED <<now, sessions, traces, steps, rec, added, endLog, client, call>>

\* variant: a handler that gives up the turn when the budget write fails
BudgetReplyStrict(r, ok) ==
    IF ~ok
    THEN IF r.kind = "unary" THEN Finish(r, 500, "BUDGET_UPDATE_FAILED")
         ELSE [r EXCEPT !.pc = "emit_error", !.err = "budget update failed"]
    ELSE IF r.kind = "unary" THEN [Finish(r, 200, "") EXCEPT !.budgetOK = ok]
    ELSE [r EXCEPT !.pc = After(r, "budget"), !.budgetOK = ok]

\* what follows the budget write: its error is logged only; Chat answers 200
\* with the response, ChatStream goes on to post_llm
BudgetReply(r, ok) ==
    IF r.kind = "unary" THEN [Finish(r, 200, "") EXCEPT !.budgetOK = ok]
    ELSE [r EXCEPT !.pc = After(r, "budget"), !.budgetOK = ok]

\* sessionService.UpdateBudget with the turn's usage, never preceded by
\* CheckBudget; Chat then answers 200
IncrementBudget(t) ==
    /\ turn[t].pc = "budget"
    /\ LET r == turn[t] IN
       \E ok \in DBOutcomes(r.clientGone) :
         /\ faults' = faults + Charge(r.clientGone, ok)
         /\ sessions' = IF ok THEN UpdateBudget(sessions, r.sid, r.totalTokens, r.totalCost)
                        ELSE sessions
         /\ added' = Account(added, sessions[r.sid], r.totalTokens, r.totalCost, ok)
         /\ turn' = [turn EXCEPT ![t] = BudgetReply(r, ok)]
    /\ UNCHANGED <<now, messages, traces, steps, rec, endLog, client, call>>

\* ------------------------------------------------------- ActivityTracker
\* variant: the activity comparison the wrong way round
shouldTimeoutReversed(r, t) ==
    \/ t - r.lastActivity < ActivityTimeout
    \/ t - r.totalStart > MaxTotalTimeout

\* variant: the total limit is not looked at
shouldTimeoutActivityOnly(r, t) == t - r.lastActivity > ActivityTimeout

\* ActivityTracker.shouldTimeout at time t
shouldTimeout(r, t) ==
    \/ t - r.lastActivity > ActivityTimeout
    \/ t - r.totalStart > MaxTotalTimeout

\* the limit a cancelling poller saw exceeded
TimeoutKind(r, t) ==
    IF t - r.lastActivity > ActivityTimeout THEN "activity" ELSE "total"

\* ------------------------------------------------------------ ChatStream
\* SSE headers, NewActivityTracker, StartMonitoring, the disconnect watcher,
\* then ExecuteChatStream opens the server stream under the tracker's context
StreamOpen(t) ==
    /\ turn[t].pc = "open"
    /\ LET r == [turn[t] EXCEPT !.lastActivity = now, !.totalStart = now,
                                !.poller = "running"]
       IN \/ turn' = [turn EXCEPT ![t] = [r EXCEPT !.pc = "streaming"]]
          \/ turn' = [turn EXCEPT ![t] =
                 [r EXCEPT !.pc = "emit_error", !.err = "failed to start stream",
                           !.upstream = "rpc_error"]]
          \* the request context is already done: the watcher's Stop() may run
          \* before the RPC is opened, and the open fails with codes.Canceled
          \/ /\ r.clientGone
             /\ turn' = [turn EXCEPT ![t] =
                    [r EXCEPT !.pc = "emit_error",
                              !.err = "failed to start stream: context canceled",
                              !.upstream = "rpc_error",
                              !.supDone = TRUE, !.cancelBy = "client"]]
    /\ UNCHANGED <<now, faults, sessions, messages, traces, steps, rec, added, endLog, client, call>>

\* chunk types of client.StreamChunk
ChunkTypes == {"content_delta", "tool_call", "usage_update", "final_response", "error"}

\* a callback whose switch matches no chunk type
EventTypeNull(type) == "null"

\* the callback's switch on chunk.Type: the "type" member of the SSE record; a
\* type the switch does not list leaves eventData nil, which is marshalled as
\* null
EventType(type) ==
    CASE type = "content_delta" -> "content_delta"
      [] type = "tool_call" -> "tool_call"
      [] type = "usage_update" -> "usage_update"
      [] type = "final_response" -> "final_response"
      [] type = "error" -> "error"
      [] OTHER -> "null"

\* GRPCLLMClient.ExecuteAgentStream, one stream.Recv that ends the loop without
\* a chunk: io.EOF and codes.Canceled both return nil, any other error is
\* returned wrapped
StreamEnd(t) ==
    /\ turn[t].pc = "streaming"
    /\ LET r == turn[t] IN
       IF r.supDone
       THEN turn' = [turn EXCEPT ![t] =
               [r EXCEPT !.pc = After(r, "streaming"), !.upstream = "canceled"]]
       ELSE \/ turn' = [turn EXCEPT ![t] =
                  [r EXCEPT !.pc = After(r, "streaming"), !.upstream = "eof"]]
            \/ turn' = [turn EXCEPT ![t] =
                  [r EXCEPT !.pc = "emit_error", !.err = "stream error",
                            !.upstream = "rpc_error"]]
    /\ UNCHANGED <<now, faults, sessions, messages, traces, steps, rec, added, endLog, client, call>>

\* variant: a receive loop that no chunk type ends
EndsStreamNever(type) == FALSE

\* ExecuteAgentStream: the chunk types after which the receive loop returns nil
EndsStream(type) == type \in {"error", "final_response"}

\* one stream.Recv that yields a chunk, and the handler's callback on it:
\* UpdateActivity, the accumulators, RecordStep on final_response, one SSE
\* record; after an error or final_response chunk the loop returns nil;
\* history: delivered lists the chunks Recv has yielded
StreamChunk(t, type, usage, cost) ==
    /\ turn[t].pc = "streaming"
    /\ ~turn[t].supDone
    /\ turn[t].chunks < MaxChunks
    /\ LET r0 == turn[t]
           tokens == IF type \in {"usage_update", "final_response"} /\ usage # Null
                     THEN usage ELSE r0.totalTokens
           r == [r0 EXCEPT !.lastActivity = now, !.chunks = @ + 1,
                           !.delivered = Append(@, type),
                           !.content = IF type = "content_delta" THEN @ + 1 ELSE @,
                           !.totalTokens = tokens,
                           !.totalCost = IF type = "final_response" THEN cost ELSE @]
           st == Step(1, "llm_call_stream", "", r.totalTokens, r.totalCost)
           record == type = "final_response" /\ r.trace # NoTrace
       IN \E mode \in (IF record THEN RecordStepModes(r.clientGone, st) ELSE {"ok"}) :
          \E written \in (IF r.clientGone THEN {TRUE, FALSE} ELSE {TRUE}) :
            LET res == IF record THEN RecordStep(traces, steps, st, r.trace, mode)
                       ELSE [traces |-> traces, steps |-> steps, err |-> ""]
            IN /\ faults' = faults + Charge(r.clientGone, mode = "ok")
               /\ traces' = res.traces
               /\ steps' = res.steps
               /\ turn' = [turn EXCEPT ![t] =
                    IF ~written
                    THEN [r EXCEPT !.pc = "emit_error", !.err = "callback error",
                                   !.upstream = "callback_error"]
                    ELSE IF EndsStream(type)
                    THEN [r EXCEPT !.sse = Append(@, EventType(type)),
                                   !.upstream = IF type = "final_response"
                                                THEN "final" ELSE "error_chunk",
                                   !.pc = After(r, "streaming")]
                    ELSE [r EXCEPT !.sse = Append(@, EventType(type))]]
    /\ UNCHANGED <<now, sessions, messages, rec, added, endLog, client, call>>

\* err == context.Canceled in ChatStream: every error ExecuteAgentStream
\* returns is built by fmt.Errorf, none is the context.Canceled value
IsContextCanceled(err) == FALSE

\* the message of the synthetic error event
ErrorMessage(r, t) ==
    IF IsContextCanceled(r.err)
    THEN IF r.supDone
         THEN IF shouldTimeout(r, t)
              THEN IF t - r.lastActivity > ActivityTimeout THEN "activity timeout"
                   ELSE IF t - r.totalStart > MaxTotalTimeout THEN "total timeout"
                   ELSE "timeout"
              ELSE "client disconnected"
         ELSE IF r.clientGone THEN "client disconnected" ELSE r.err
    ELSE r.err

\* the handler returns: deferred activityTracker.Stop(), the tracker is dropped
Return(r) ==
    [r EXCEPT !.pc = "done", !.http = 200,
              !.supDone = TRUE, !.cancelBy = IF r.supDone THEN @ ELSE "stop",
              !.lastActivity = Null, !.totalStart = Null]

\* ChatStream, err != nil: the synthetic error event, then return; the trace
\* is not written
EmitError(t) ==
    /\ turn[t].pc = "emit_error"
    /\ LET r == turn[t] IN
       turn' = [turn EXCEPT ![t] =
           [Return([r EXCEPT !.sse = Append(@, "error")])
               EXCEPT !.code = ErrorMessage(r, now)]]
    /\ UNCHANGED <<now, faults, sessions, messages, traces, steps, rec, added, endLog, client, call>>

\* ChatStream, last statement: the done event
EmitDone(t) ==
    /\ turn[t].pc = "emit_done"
    /\ turn' = [turn EXCEPT ![t] = Return([turn[t] EXCEPT !.sse = Append(@, "done")])]
    /\ UNCHANGED <<now, faults, sessions, messages, traces, steps, rec, added, endLog, client, call>>

\* StartMonitoring's goroutine at a tick: leave when the context is done,
\* cancel when shouldTimeout
PollerCheck(t) ==
    /\ turn[t].poller = "running"
    /\ LET r == turn[t] IN
       IF r.supDone
       THEN turn' = [turn EXCEPT ![t].poller = "exited"]
       ELSE /\ shouldTimeout(r, now)
            /\ turn' = [turn EXCEPT ![t].poller = "exited", ![t].supDone = TRUE,
                                    ![t].cancelBy = TimeoutKind(r, now)]
    /\ UNCHANGED <<now, faults, sessions, messages, traces, steps, rec, added, endLog, client, call>>

\* the client closes the connection: the request context is cancelled
ClientDisconnect(t) ==
    /\ turn[t].pc \notin {"idle", "done", "panicked"}
    /\ ~turn[t].clientGone
    /\ turn' = [turn EXCEPT ![t].clientGone = TRUE]
    /\ UNCHANGED <<now, faults, sessions, messages, traces, steps, rec, added, endLog, client, call>>

\* variant: a watcher that returns without stopping the tracker
DisconnectWatcherIdle(t) ==
    /\ turn[t].clientGone
    /\ turn[t].poller # "none"
    /\ ~turn[t].supDone
    /\ UNCHANGED vars

\* ChatStream's goroutine: <-c.Request.Context().Done(); activityTracker.Stop()
DisconnectWatcher(t) ==
    /\ turn[t].clientGone
    /\ turn[t].poller # "none"
    /\ ~turn[t].supDone
    /\ turn' = [turn EXCEPT ![t].supDone = TRUE, ![t].cancelBy = "client"]
    /\ UNCHANGED <<now, faults, sessions, messages, traces, steps, rec, added, endLog, client, call>>

\* time passes while a turn waits for the upstream (ExecuteAgent or Recv); the
\* handler's own statements take no time
Tick ==
    /\ now < MaxTime
    /\ \E t \in Turns : turn[t].pc \in {"call", "streaming"}
    /\ now' = now + 1
    /\ UNCHANGED <<faults, sessions, messages, traces, steps, turn, rec, added, endLog, client, call>>

\* ---------------------------------------------------------- direct callers
\* Tracer and Session Store called concurrently: RecordStep with Sequence 0 by
\* tasks that hold the context-carried Tracer (SpecStore), EndTrace calls on
\* one trace (SpecEnd), UpdateBudget by the budget stage of concurrent turns
\* (SpecBudget).
IdleRec == [pc |-> "idle", seq |-> 0, tokens |-> 0, cost |-> 0, err |-> ""]

InFlight == Cardinality({c \in Recorders : rec[c].pc # "idle"})

\* StartTrace by the owner of the direct trace
DirectStart ==
    /\ traces[DirectTrace].status = "none"
    /\ \E ok \in DBOutcomes(FALSE) :
         /\ faults' = faults + Charge(FALSE, ok)
         /\ traces' = IF ok THEN StartTrace(traces, DirectTrace, "s1", "direct", now)
                      ELSE traces
    /\ UNCHANGED <<now, sessions, messages, steps, turn, rec, added, endLog, client, call>>

\* RecordStep entered with Sequence == 0: ids and timestamps are set
RecBegin(c, tokens, cost) ==
    /\ rec[c].pc = "idle"
    /\ traces[DirectTrace].status # "none"
    /\ Len(steps[DirectTrace]) + InFlight < MaxSteps
    /\ rec' = [rec EXCEPT ![c] = [pc |-> "seq", seq |-> 0, tokens |-> tokens,
                                  cost |-> cost, err |-> ""]]
    /\ UNCHANGED <<now, faults, sessions, messages, traces, steps, turn, added, endLog, client, call>>

\* RecordStep: sequence, err := t.getNextSequence(ctx, step.TraceID)
RecGetSeq(c) ==
    /\ rec[c].pc = "seq"
    /\ \E ok \in DBOutcomes(FALSE) :
         /\ faults' = faults + Charge(FALSE, ok)
         /\ rec' = [rec EXCEPT ![c] =
                IF ok THEN [@ EXCEPT !.pc = "insert",
                                     !.seq = getNextSequence(steps, DirectTrace)]
                ELSE [IdleRec EXCEPT !.err = "failed to get sequence"]]
    /\ UNCHANGED <<now, sessions, messages, traces, steps, turn, added, endLog, client, call>>

\* RecordStep: t.stepRepo.Create(ctx, step)
RecInsert(c) ==
    /\ rec[c].pc = "insert"
    /\ LET r == rec[c]
           st == Step(r.seq, "tool_call", "", r.tokens, r.cost)
       IN \E ok \in DBOutcomes(FALSE) :
            /\ faults' = faults + Charge(FALSE, ok)
            /\ steps' = IF ok THEN StepCreate(steps, DirectTrace, st) ELSE steps
            /\ rec' = [rec EXCEPT ![c] =
                   IF ~ok THEN [IdleRec EXCEPT !.err = "failed to record step"]
                   ELSE IF r.tokens > 0 \/ r.cost > 0 THEN [r EXCEPT !.pc = "cost"]
                   ELSE IdleRec]
    /\ UNCHANGED <<now, sessions, messages, traces, turn, added, endLog, client, call>>

\* RecordStep: t.traceRepo.UpdateCost(ctx, step.TraceID, tokens, cost); its
\* failure is returned as the call's error
RecCost(c) ==
    /\ rec[c].pc = "cost"
    /\ LET r == rec[c] IN
       \E ok \in DBOutcomes(FALSE) :
         /\ faults' = faults + Charge(FALSE, ok)
         /\ traces' = IF ok THEN TraceUpdateCost(traces, DirectTrace, r.tokens, r.cost)
                      ELSE traces
         /\ rec' = [rec EXCEPT ![c] =
                IF ok THEN IdleRec
                ELSE [IdleRec EXCEPT !.err = "failed to update trace cost"]]
    /\ UNCHANGED <<now, sessions, messages, steps, turn, added, endLog, client, call>>

\* EndTrace(traceID, status) by a direct caller
DirectEnd(status) ==
    /\ traces[DirectTrace].status # "none"
    /\ traces[DirectTrace].statusWrites < MaxEnds
    /\ \E ok \in DBOutcomes(FALSE) :
         /\ faults' = faults + Charge(FALSE, ok)
         /\ traces' = EndTrace(traces, DirectTrace, status, now, ok)
         /\ endLog' = [status |-> status, err |-> IF ok THEN "" ELSE "db error",
                       before |-> <<traces[DirectTrace].status, traces[DirectTrace].endedAt>>,
                       after |-> <<traces'[DirectTrace].status, traces'[DirectTrace].endedAt>>]
    /\ UNCHANGED <<now, sessions, messages, steps, turn, rec, added, client, call>>

\* EndTraceWithError(traceID, status, err) by a direct caller
DirectEndWithError(status) ==
    /\ traces[DirectTrace].status # "none"
    /\ traces[DirectTrace].statusWrites < MaxEnds
    /\ \E ok \in DBOutcomes(FALSE) :
         /\ faults' = faults + Charge(FALSE, ok)
         /\ traces' = EndTraceWithError(traces, DirectTrace, status, now, "cause", ok)
         /\ endLog' = [status |-> status, err |-> IF ok THEN "" ELSE "db error",
                       before |-> <<traces[DirectTrace].status, traces[DirectTrace].endedAt>>,
                       after |-> <<traces'[DirectTrace].status, traces'[DirectTrace].endedAt>>]
    /\ UNCHANGED <<now, sessions, messages, steps, turn, rec, added, client, call>>

\* a concurrent turn on session s1 reaches its budget stage with its usage
BudgetBegin(c, tokens, cost) ==
    /\ rec[c].pc = "idle"
    /\ added.calls + Cardinality({d \in Recorders : rec[d].pc = "budget"}) < MaxBudgetCalls
    /\ rec' = [rec EXCEPT ![c] = [pc |-> "budget", seq |-> 0, tokens |-> tokens,
                                  cost |-> cost, err |-> ""]]
    /\ UNCHANGED <<now, faults, sessions, messages, traces, steps, turn, added, endLog, client, call>>

\* ... and runs sessionService.UpdateBudget(ctx, sessionID, tokens, cost)
BudgetCall(c) ==
    /\ rec[c].pc = "budget"
    /\ LET r == rec[c] IN
       \E ok \in DBOutcomes(FALSE) :
         /\ faults' = faults + Charge(FALSE, ok)
         /\ sessions' = IF ok THEN UpdateBudget(sessions, "s1", r.tokens, r.cost)
                        ELSE sessions
         /\ added' = Account(added, sessions["s1"], r.tokens, r.cost, ok)
         /\ rec' = [rec EXCEPT ![c] = [IdleRec EXCEPT !.err = IF ok THEN "" ELSE "db error"]]
    /\ UNCHANGED <<now, messages, traces, steps, turn, endLog, client, call>>

\* time passes for the direct callers
TickStore ==
    /\ now < MaxTime
    /\ now' = now + 1
    /\ UNCHANGED <<faults, sessions, messages, traces, steps, turn, rec, added, endLog, client, call>>

\* ---------------------------------------- ActivityTracker on its own
\* NewActivityTracker: lastActivity and totalStart are time.Now(), the context
\* is live
NewActivityTracker(t) ==
    /\ turn[t].pc = "idle"
    /\ turn' = [turn EXCEPT ![t] =
          [IdleTurn EXCEPT !.pc = "supervised", !.kind = "tracker",
                           !.lastActivity = now, !.totalStart = now]]
    /\ UNCHANGED <<now, faults, sessions, messages, traces, steps, rec, added, endLog, client, call>>

\* ActivityTracker.StartMonitoring: the poller goroutine starts
StartMonitoring(t) ==
    /\ turn[t].pc = "supervised"
    /\ turn[t].poller = "none"
    /\ turn' = [turn EXCEPT ![t].poller = "running"]
    /\ UNCHANGED <<now, faults, sessions, messages, traces, steps, rec, added, endLog, client, call>>

\* ActivityTracker.UpdateActivity
UpdateActivity(t) ==
    /\ turn[t].pc = "supervised"
    /\ turn[t].lastActivity # now
    /\ turn' = [turn EXCEPT ![t].lastActivity = now]
    /\ UNCHANGED <<now, faults, sessions, messages, traces, steps, rec, added, endLog, client, call>>

\* the poller is running on a live context
Monitoring(t) == turn[t].poller = "running" /\ ~turn[t].supDone

\* StartMonitoring's goroutine at a tick at which no limit is exceeded: nothing
\* happens; history: missed records that a limit had been exceeded since the
\* poller last looked (due)
PollerIdle(t) ==
    /\ Monitoring(t)
    /\ ~shouldTimeout(turn[t], now)
    /\ turn[t].due
    /\ turn' = [turn EXCEPT ![t].due = FALSE, ![t].missed = TRUE]
    /\ UNCHANGED <<now, faults, sessions, messages, traces, steps, rec, added, endLog, client, call>>

\* time passes for the tracker; history: due records that a limit became
\* exceeded while the poller was running
TickSupervisor ==
    /\ now < MaxTime
    /\ now' = now + 1
    /\ turn' = [t \in Turns |->
                  IF Monitoring(t) /\ shouldTimeout(turn[t], now + 1)
                  THEN [turn[t] EXCEPT !.due = TRUE] ELSE turn[t]]
    /\ UNCHANGED <<faults, sessions, messages, traces, steps, rec, added, endLog, client, call>>

\* ActivityTracker.Stop
Stop(t) ==
    /\ turn[t].pc = "supervised"
    /\ ~turn[t].supDone
    /\ turn' = [turn EXCEPT ![t].supDone = TRUE, ![t].cancelBy = "stop"]
    /\ UNCHANGED <<now, faults, sessions, messages, traces, steps, rec, added, endLog, client, call>>

\* ------------------------------------------------------ upstream client
ClientOps == {"ExecuteAgent", "ExecuteAgentStream", "GetSupportedModels",
              "ValidateConfig", "HealthCheck"}

ErrClientClosed == "gRPC client is closed"
ErrConnNil == "gRPC connection is nil"

\* locals of one call on the client; history: late records that some Close()
\* had returned when the call started, rpc that the call issued an RPC,
\* callback that the stream callback was invoked
IdleCall == [pc |-> "idle", op |-> "", err |-> "", closeErr |-> "",
             rpc |-> FALSE, callback |-> FALSE, late |-> FALSE]

\* NewGRPCLLMClient: a live connection, closeOnce unused, closed false;
\* history: closes counts the conn.Close() calls, returned records that some
\* Close() has returned
NewGRPCLLMClient ==
    [conn |-> "open", once |-> "fresh", closed |-> FALSE, closes |-> 0,
     returned |-> FALSE, call |-> [c \in Recorders |-> IdleCall]]

\* a Once.Do that runs its function on every call
OnceDoAlways(once) == TRUE

\* sync.Once.Do: the function runs for the first caller only
OnceDo(once) == once = "fresh"

\* a closed flag that is never seen set
IsClosedNever(cl) == FALSE

\* c.closed.Load()
IsClosed(cl) == cl.closed

\* a caller's call returns
CallReturn(cl, c, err) ==
    [cl EXCEPT !.call[c].pc = "idle", !.call[c].err = err]

\* Close(): closeOnce.Do is entered; the first caller runs the function, a
\* caller that arrives while it runs waits for it, a later one returns nil
CloseEnter(c) ==
    /\ client.call[c].pc = "idle"
    /\ LET started == [client EXCEPT
              !.call[c] = [IdleCall EXCEPT !.op = "Close", !.late = client.returned]]
       IN  client' =
             IF OnceDo(client.once)
             THEN [started EXCEPT !.once = "running", !.call[c].pc = "store"]
             ELSE IF client.once = "running"
                  THEN [started EXCEPT !.call[c].pc = "wait"]
                  ELSE [started EXCEPT !.call[c].pc = "idle", !.returned = TRUE]
    /\ UNCHANGED <<now, faults, sessions, messages, traces, steps, turn, rec, added, endLog, call>>

\* Close(), in the once function: c.closed.Store(true)
CloseStore(c) ==
    /\ client.call[c].pc = "store"
    /\ client' = [client EXCEPT !.closed = TRUE, !.call[c].pc = "conn"]
    /\ UNCHANGED <<now, faults, sessions, messages, traces, steps, turn, rec, added, endLog, call>>

\* Close(), in the once function: if c.conn != nil, c.conn.Close(), whose
\* error is wrapped
CloseConn(c) ==
    /\ client.call[c].pc = "conn"
    /\ \E e \in {"", "failed to close gRPC connection"} :
         client' = IF client.conn = "nil"
                   THEN [client EXCEPT !.call[c].pc = "finish"]
                   ELSE [client EXCEPT !.conn = "closed", !.closes = @ + 1,
                                       !.call[c].closeErr = e, !.call[c].pc = "clear"]
    /\ UNCHANGED <<now, faults, sessions, messages, traces, steps, turn, rec, added, endLog, call>>

\* Close(), in the once function: c.conn = nil
CloseClear(c) ==
    /\ client.call[c].pc = "clear"
    /\ client' = [client EXCEPT !.conn = "nil", !.call[c].pc = "finish"]
    /\ UNCHANGED <<now, faults, sessions, messages, traces, steps, turn, rec, added, endLog, call>>

\* Close(): the once function is over, Do returns, Close returns closeErr
CloseFinish(c) ==
    /\ client.call[c].pc = "finish"
    /\ client' = [CallReturn(client, c, client.call[c].closeErr) EXCEPT
                     !.once = "done", !.returned = TRUE]
    /\ UNCHANGED <<now, faults, sessions, messages, traces, steps, turn, rec, added, endLog, call>>

\* Close(): a caller that waited in Do returns nil once the function is over
CloseWait(c) ==
    /\ client.call[c].pc = "wait"
    /\ client.once = "done"
    /\ client' = [CallReturn(client, c, "") EXCEPT !.returned = TRUE]
    /\ UNCHANGED <<now, faults, sessions, messages, traces, steps, turn, rec, added, endLog, call>>

\* an operation of the client starts
ClientCall(c, op) ==
    /\ client.call[c].pc = "idle"
    /\ client' = [client EXCEPT
          !.call[c] = [IdleCall EXCEPT !.pc = "check", !.op = op,
                                       !.late = client.returned]]
    /\ UNCHANGED <<now, faults, sessions, messages, traces, steps, turn, rec, added, endLog, call>>

\* getConnection: the closed flag is loaded
getConnectionClosed(c) ==
    /\ client.call[c].pc = "check"
    /\ client' = IF IsClosed(client)
                 THEN CallReturn(client, c, ErrClientClosed)
                 ELSE [client EXCEPT !.call[c].pc = "read"]
    /\ UNCHANGED <<now, faults, sessions, messages, traces, steps, turn, rec, added, endLog, call>>

\* getConnection: c.conn is read, without synchronisation with Close()
getConnectionConn(c) ==
    /\ client.call[c].pc = "read"
    /\ client' = IF client.conn = "nil"
                 THEN CallReturn(client, c, ErrConnNil)
                 ELSE [client EXCEPT !.call[c].pc = "rpc"]
    /\ UNCHANGED <<now, faults, sessions, messages, traces, steps, turn, rec, added, endLog, call>>

\* the operation issues its RPC on the connection it holds; on a connection
\* that has been closed the RPC fails; ExecuteAgentStream invokes the callback
\* for what it receives
ClientRpc(c) ==
    /\ client.call[c].pc = "rpc"
    /\ \E ok \in IF client.conn = "open" THEN BOOLEAN ELSE {FALSE} :
         client' = [CallReturn(client, c, IF ok THEN "" ELSE "rpc failed") EXCEPT
                       !.call[c].rpc = TRUE,
                       !.call[c].callback = ok /\ client.call[c].op = "ExecuteAgentStream"]
    /\ UNCHANGED <<now, faults, sessions, messages, traces, steps, turn, rec, added, endLog, call>>

\* ------------------------------------------------- LLM configuration
\* A model name is the sequence of the parts of its string between the dashes:
\* "deepseek-chat" is <<"deepseek", "chat">>, the empty string is <<>>.
\* Temperatures are counted in tenths.
NoModel == <<>>

DefaultTemperature == 7
DefaultMaxTokens == 2000
TemperatureLimit == 20
MaxTokensLimit == 32000

DeepSeekModels == {<<"deepseek", "chat">>, <<"deepseek", "reasoner">>}
AnthropicModels == {<<"claude", "3", "opus", "20240229">>, <<"claude", "3", "sonnet", "20240229">>,
                    <<"claude", "3", "haiku", "20240307">>, <<"claude", "3", "5", "sonnet", "20241022">>}
QwenModels == {<<"qwen", "turbo">>, <<"qwen", "plus">>, <<"qwen", "max">>, <<"qwen", "max", "longcontext">>}
ErnieModels == {<<"ernie", "bot", "turbo">>, <<"ernie", "bot">>, <<"ernie", "bot", "4">>, <<"ernie", "speed">>}
ChatGLMModels == {<<"glm", "4">>, <<"glm", "4v">>, <<"glm", "3", "turbo">>}

\* LLMService.inferProviderFromModel: a switch on equality with the listed names
inferProviderFromModel(modelName) ==
    CASE modelName \in DeepSeekModels -> "deepseek"
      [] modelName \in AnthropicModels -> "anthropic"
      [] modelName \in QwenModels -> "qwen"
      [] modelName \in ErnieModels -> "ernie"
      [] modelName \in ChatGLMModels -> "chatglm"
      [] OTHER -> "openai"

\* model.LLMConfig behind a pointer
LLMConfig(provider, modelName, temperature, maxTokens) ==
    [nil |-> FALSE, provider |-> provider, model |-> modelName,
     temperature |-> temperature, maxTokens |-> maxTokens]

NilConfig == [nil |-> TRUE, provider |-> "", model |-> NoModel, temperature |-> 0, maxTokens |-> 0]

\* LLMService.ValidateConfig: "" is nil
ValidateConfig(config) ==
    IF config.provider = "" THEN "provider is required"
    ELSE IF config.model = NoModel THEN "model is required"
    ELSE IF config.temperature < 0 \/ config.temperature > TemperatureLimit
    THEN "temperature must be between 0 and 2"
    ELSE IF config.maxTokens <= 0 \/ config.maxTokens > MaxTokensLimit
    THEN "max_tokens must be between 1 and 32000"
    ELSE ""

\* LLMService.getProviderFromType
getProviderFromType(providerType) ==
    IF providerType \in {"openai", "deepseek", "anthropic", "qwen", "ernie", "chatglm"}
    THEN providerType ELSE "openai"

\* LLMService.getDefaultModelForProvider; defaultModel is config.DefaultModel
getDefaultModelForProvider(providerType, defaultModel) ==
    CASE providerType = "deepseek" -> <<"deepseek", "chat">>
      [] providerType = "anthropic" -> <<"claude", "3", "sonnet", "20240229">>
      [] providerType = "qwen" -> <<"qwen", "turbo">>
      [] providerType = "ernie" -> <<"ernie", "bot", "turbo">>
      [] providerType = "chatglm" -> <<"glm", "4">>
      [] OTHER -> defaultModel

\* LLMService.GetDefaultConfig (credentials left out)
GetDefaultConfig(defaultProvider, defaultModel) ==
    LLMConfig(getProviderFromType(defaultProvider),
              getDefaultModelForProvider(defaultProvider, defaultModel),
              DefaultTemperature, DefaultMaxTokens)

\* LLMService.getEffectiveLLMConfig (credentials left out)
getEffectiveLLMConfig(userConfig, defaultProvider, defaultModel) ==
    LET d == GetDefaultConfig(defaultProvider, defaultModel)
        c == IF userConfig.nil THEN d
             ELSE [d EXCEPT
                     !.provider = IF userConfig.provider # "" THEN userConfig.provider ELSE @,
                     !.model = IF userConfig.model # NoModel THEN userConfig.model ELSE @,
                     !.temperature = IF userConfig.temperature > 0
                                     THEN userConfig.temperature ELSE @,
                     !.maxTokens = IF userConfig.maxTokens > 0 THEN userConfig.maxTokens ELSE @]
    IN IF c.provider = "" THEN [c EXCEPT !.provider = inferProviderFromModel(c.model)]
       ELSE c

\* a chat request as the handler sees its configuration after ShouldBindJSON
\* (an omitted member is Go's zero value), whether StartTrace gave a trace, and
\* the deployment's defaults
ChatCall(req, traced, defaultProvider, defaultModel) ==
    [op |-> "chat", pc |-> "bound", req |-> req, traced |-> traced,
     defaultProvider |-> defaultProvider, defaultModel |-> defaultModel,
     llmConfig |-> NilConfig, llmRequest |-> NilConfig, sent |-> NilConfig,
     http |-> 0, code |-> ""]

\* Chat / ChatStream: llmConfig is built when the request names a provider or
\* a model, and validated; a rejection answers 400 INVALID_CONFIG
BuildLLMConfig ==
    /\ call.op = "chat"
    /\ call.pc = "bound"
    /\ LET req == call.req
           given == req.provider # "" \/ req.model # NoModel
           cfg == IF given
                  THEN LLMConfig(req.provider, req.model, req.temperature, req.maxTokens)
                  ELSE NilConfig
       IN call' = IF given /\ ValidateConfig(cfg) # ""
                  THEN [call EXCEPT !.pc = "done", !.llmConfig = cfg,
                                    !.http = 400, !.code = "INVALID_CONFIG"]
                  ELSE [call EXCEPT !.pc = "pre", !.llmConfig = cfg]
    /\ UNCHANGED <<now, faults, sessions, messages, traces, steps, turn, rec, added, endLog, client>>

\* Chat / ChatStream, pre_llm snapshot: with a trace, llmConfig.Model and
\* llmConfig.Provider are read through the pointer; a nil pointer panics
PreSnapshotState ==
    /\ call.op = "chat"
    /\ call.pc = "pre"
    /\ call' = IF call.traced /\ call.llmConfig.nil
               THEN [call EXCEPT !.pc = "panicked"]
               ELSE [call EXCEPT !.pc = "execute"]
    /\ UNCHANGED <<now, faults, sessions, messages, traces, steps, turn, rec, added, endLog, client>>

\* LLMService.ExecuteChat / ExecuteChatStream: the effective configuration and
\* the LLMRequest; Temperature and MaxTokens are pointers, nil (Null) unless
\* the effective value is positive
ExecuteChat ==
    /\ call.op = "chat"
    /\ call.pc = "execute"
    /\ LET config == getEffectiveLLMConfig(call.llmConfig, call.defaultProvider,
                                           call.defaultModel)
       IN call' = [call EXCEPT !.pc = "client", !.llmRequest =
              LLMConfig(config.provider, config.model,
                        IF config.temperature > 0 THEN config.temperature ELSE Null,
                        IF config.maxTokens > 0 THEN config.maxTokens ELSE Null)]
    /\ UNCHANGED <<now, faults, sessions, messages, traces, steps, turn, rec, added, endLog, client>>

\* GRPCLLMClient.ExecuteAgent / ExecuteAgentStream: the protobuf request, with
\* the client's defaults for nil pointers
ExecuteAgent ==
    /\ call.op = "chat"
    /\ call.pc = "client"
    /\ LET req == call.llmRequest
       IN call' = [call EXCEPT !.pc = "sent", !.sent =
              LLMConfig(req.provider, req.model,
                        IF req.temperature # Null THEN req.temperature ELSE DefaultTemperature,
                        IF req.maxTokens # Null THEN req.maxTokens ELSE DefaultMaxTokens)]
    /\ UNCHANGED <<now, faults, sessions, messages, traces, steps, turn, rec, added, endLog, client>>

\* one call of inferProviderFromModel
InferCall(modelName) == [op |-> "infer", pc |-> "called", model |-> modelName, provider |-> ""]

InferProvider ==
    /\ call.op = "infer"
    /\ call.pc = "called"
    /\ call' = [call EXCEPT !.pc = "returned", !.provider = inferProviderFromModel(call.model)]
    /\ UNCHANGED <<now, faults, sessions, messages, traces, steps, turn, rec, added, endLog, client>>

\* ------------------------------------------------------- cost analysis
\* Costs are counted in tenths of the cost unit; a quotient is kept as the
\* pair of its numerator and denominator.
HighImpact == 10
MediumImpact == 1
AnalyzeTopN == 5

\* MetricsCalculatorImpl.Sum: the loop over the values
RECURSIVE Sum(_)
Sum(values) == IF values = <<>> THEN 0 ELSE Head(values) + Sum(Tail(values))

\* MetricsCalculatorImpl.Avg: sum / float64(len(values))
Avg(values) == [num |-> Sum(values), den |-> Len(values)]

\* a maximum that looks at the first value only
MaxOfFirst(values) == values[1]

\* the loop of Max / Min: acc is the running extreme
RECURSIVE Extreme(_, _, _)
Extreme(values, acc, greater) ==
    IF values = <<>> THEN acc
    ELSE LET v == Head(values)
             take == IF greater THEN v > acc ELSE v < acc
         IN Extreme(Tail(values), IF take THEN v ELSE acc, greater)

\* MetricsCalculatorImpl.Max
Max(values) == Extreme(values, values[1], TRUE)

\* MetricsCalculatorImpl.Min
Min(values) == Extreme(values, values[1], FALSE)

\* CostAnalyzerImpl.calculateSummary
calculateSummary(trs) ==
    LET costs == [i \in 1..Len(trs) |-> trs[i].costAPI]
        totalTokens == Sum([i \in 1..Len(trs) |-> trs[i].costTokens])
        totalCost == Sum(costs)
    IN [totalCost |-> totalCost, avgCost |-> Avg(costs),
        maxCost |-> Max(costs), minCost |-> Min(costs),
        totalTokens |-> totalTokens, traceCount |-> Len(trs),
        costPerToken |-> IF totalTokens > 0 THEN [num |-> totalCost, den |-> totalTokens]
                         ELSE [num |-> 0, den |-> 1]]

\* the zero CostSummary Analyze returns for a session without traces
EmptySummary ==
    [totalCost |-> 0, avgCost |-> [num |-> 0, den |-> 1], maxCost |-> 0, minCost |-> 0,
     totalTokens |-> 0, traceCount |-> 0, costPerToken |-> [num |-> 0, den |-> 1]]

\* sort.Slice with less(i, j) = traces[i].CostAPI > traces[j].CostAPI: the
\* slice is reordered so that costs do not increase; sort.Slice is not stable,
\* so traces of equal cost may come out in any order
SortedByCost(trs) ==
    {[i \in 1..Len(trs) |-> trs[p[i]]] : p \in
        {q \in Permutations(1..Len(trs)) :
            \A i, j \in 1..Len(trs) : i < j => trs[q[i]].costAPI >= trs[q[j]].costAPI}}

\* the impact level of a hotspot
Impact(costAPI) ==
    IF costAPI > HighImpact THEN "high"
    ELSE IF costAPI > MediumImpact THEN "medium" ELSE "low"

\* the loop of IdentifyHotspots over the sorted slice
Hotspots(sorted, topN) ==
    LET n == IF topN < Len(sorted) THEN topN ELSE Len(sorted)
    IN [i \in 1..n |-> [traceId |-> sorted[i].id, cost |-> sorted[i].costAPI,
                        tokens |-> sorted[i].costTokens,
                        impact |-> Impact(sorted[i].costAPI)]]

\* a call of Analyze on a session with traces trs, or of IdentifyHotspots
AnalysisCall(op, trs, topN) ==
    [op |-> op, pc |-> "called", traces |-> trs, topN |-> topN,
     summary |-> EmptySummary, hotspots |-> <<>>]

\* CostAnalyzerImpl.Analyze without filters: no traces gives the zero summary;
\* otherwise the summary and the five hottest traces
Analyze ==
    /\ call.op = "analyze"
    /\ call.pc = "called"
    /\ IF call.traces = <<>>
       THEN call' = [call EXCEPT !.pc = "returned"]
       ELSE \E sorted \in SortedByCost(call.traces) :
              call' = [call EXCEPT !.pc = "returned",
                                   !.summary = calculateSummary(call.traces),
                                   !.hotspots = Hotspots(sorted, AnalyzeTopN)]
    /\ UNCHANGED <<now, faults, sessions, messages, traces, steps, turn, rec, added, endLog, client>>

\* CostAnalyzerImpl.IdentifyHotspots(traces, topN)
IdentifyHotspots ==
    /\ call.op = "hotspots"
    /\ call.pc = "called"
    /\ \E sorted \in SortedByCost(call.traces) :
         call' = [call EXCEPT !.pc = "returned", !.hotspots = Hotspots(sorted, call.topN)]
    /\ UNCHANGED <<now, faults, sessions, messages, traces, steps, turn, rec, added, endLog, client>>

\* ---------------------------------------------------------- specification
\* no stateless service call is being followed
NoCall == [op |-> "none"]

NoEnd == [status |-> "", err |-> "", before |-> <<"", Null>>, after |-> <<"", Null>>]

Init ==
    /\ now = 0
    /\ faults = 0
    /\ sessions = [s \in SessionIds |->
                     [totalTokens |-> QuotaTokens, usedTokens |-> 0,
                      totalCost |-> QuotaCost, usedCost |-> 0]]
    /\ messages = {}
    /\ traces = [i \in TraceIds |-> NoTraceRow]
    /\ steps = [i \in TraceIds |-> <<>>]
    /\ turn = [t \in Turns |-> IdleTurn]
    /\ rec = [c \in Recorders |-> IdleRec]
    /\ added = NoneAdded(0, 0)
    /\ endLog = NoEnd
    /\ client = NewGRPCLLMClient
    /\ call = NoCall

Next ==
    \/ \E t \in Turns, kind \in {"unary", "stream"}, req \in ReqClasses : Begin(t, kind, req)
    \/ \E t \in Turns : Validate(t)
    \/ \E t \in Turns : PreSnapshot(t)
    \/ \E t \in Turns : ChatExecute(t)
    \/ \E t \in Turns : ChatFail(t)
    \/ \E t \in Turns : ChatRecordStep(t)
    \/ \E t \in Turns : PostSnapshot(t)
    \/ \E t \in Turns : EndCompleted(t)
    \/ \E t \in Turns : SaveMessages(t)
    \/ \E t \in Turns : IncrementBudget(t)
    \/ \E t \in Turns : StreamOpen(t)
    \/ \E t \in Turns : StreamEnd(t)
    \/ \E t \in Turns, type \in ChunkTypes, usage \in {Null} \cup 0..MaxUsage,
          cost \in 0..MaxCost : StreamChunk(t, type, usage, cost)
    \/ \E t \in Turns : EmitError(t)
    \/ \E t \in Turns : EmitDone(t)
    \/ \E t \in Turns : PollerCheck(t)
    \/ \E t \in Turns : ClientDisconnect(t)
    \/ \E t \in Turns : DisconnectWatcher(t)
    \/ Tick

Spec == Init /\ [][Next]_vars

TerminalStatuses == {"completed", "failed", "error"}

NextStore ==
    \/ DirectStart
    \/ \E c \in Recorders, tokens \in {0, MaxUsage}, cost \in {0, MaxCost} :
          RecBegin(c, tokens, cost)
    \/ \E c \in Recorders : RecGetSeq(c)
    \/ \E c \in Recorders : RecInsert(c)
    \/ \E c \in Recorders : RecCost(c)

SpecStore == Init /\ [][NextStore]_vars

NextEnd ==
    \/ DirectStart
    \/ \E status \in TerminalStatuses : DirectEnd(status)
    \/ \E status \in TerminalStatuses : DirectEndWithError(status)
    \/ TickStore

SpecEnd == Init /\ [][NextEnd]_vars

NextSupervisor ==
    \/ \E t \in Turns : NewActivityTracker(t)
    \/ \E t \in Turns : StartMonitoring(t)
    \/ \E t \in Turns : UpdateActivity(t)
    \/ \E t \in Turns : Stop(t)
    \/ \E t \in Turns : PollerCheck(t)
    \/ \E t \in Turns : PollerIdle(t)
    \/ TickSupervisor

\* the poller goroutine is scheduled: its ticker keeps firing
SpecSupervisor ==
    Init /\ [][NextSupervisor]_vars /\ \A t \in Turns : WF_vars(PollerCheck(t))

NextBudget ==
    \/ \E c \in Recorders, tokens \in 0..MaxUsage, cost \in 0..MaxCost :
          BudgetBegin(c, tokens, cost)
    \/ \E c \in Recorders : BudgetCall(c)

\* a session that earlier turns already charged, within its quota
InitBudget ==
    /\ now = 0
    /\ faults = 0
    /\ \E usedTokens \in 0..QuotaTokens, usedCost \in 0..QuotaCost :
         /\ sessions = [s \in SessionIds |->
                          [totalTokens |-> QuotaTokens, usedTokens |-> usedTokens,
                           totalCost |-> QuotaCost, usedCost |-> usedCost]]
         /\ added = NoneAdded(usedTokens, usedCost)
    /\ messages = {}
    /\ traces = [i \in TraceIds |-> NoTraceRow]
    /\ steps = [i \in TraceIds |-> <<>>]
    /\ turn = [t \in Turns |-> IdleTurn]
    /\ rec = [c \in Recorders |-> IdleRec]
    /\ endLog = NoEnd
    /\ client = NewGRPCLLMClient
    /\ call = NoCall

SpecBudget == InitBudget /\ [][NextBudget]_vars

NextClient ==
    \/ \E c \in Recorders : CloseEnter(c)
    \/ \E c \in Recorders : CloseStore(c)
    \/ \E c \in Recorders : CloseConn(c)
    \/ \E c \in Recorders : CloseClear(c)
    \/ \E c \in Recorders : CloseFinish(c)
    \/ \E c \in Recorders : CloseWait(c)
    \/ \E c \in Recorders, op \in ClientOps : ClientCall(c, op)
    \/ \E c \in Recorders : getConnectionClosed(c)
    \/ \E c \in Recorders : getConnectionConn(c)
    \/ \E c \in Recorders : ClientRpc(c)

SpecClient == Init /\ [][NextClient]_vars

\* model names a request or a caller can give: the listed ones and others
RequestModels ==
    DeepSeekModels \cup AnthropicModels \cup QwenModels \cup ErnieModels \cup ChatGLMModels
    \cup {NoModel, <<"gpt", "4o">>, <<"claude", "3", "opus", "latest">>,
          <<"claude", "3", "5", "haiku", "20241022">>, <<"claude", "2">>,
          <<"deepseek", "coder">>, <<"glm", "4", "plus">>}

RequestProviders == {"", "deepseek", "anthropic", "azure"}

ChatRequests ==
    [provider : RequestProviders,
     model : {NoModel, <<"deepseek", "chat">>, <<"claude", "3", "opus", "latest">>, <<"gpt", "4o">>},
     temperature : {0, 5, TemperatureLimit + 1},
     maxTokens : {0, 1000, MaxTokensLimit + 1}]

InitConfig ==
    /\ now = 0
    /\ faults = 0
    /\ sessions = [s \in SessionIds |->
                     [totalTokens |-> QuotaTokens, usedTokens |-> 0,
                      totalCost |-> QuotaCost, usedCost |-> 0]]
    /\ messages = {}
    /\ traces = [i \in TraceIds |-> NoTraceRow]
    /\ steps = [i \in TraceIds |-> <<>>]
    /\ turn = [t \in Turns |-> IdleTurn]
    /\ rec = [c \in Recorders |-> IdleRec]
    /\ added = NoneAdded(0, 0)
    /\ endLog = NoEnd
    /\ client = NewGRPCLLMClient
    /\ \/ \E req \in ChatRequests, traced \in BOOLEAN,
             defaultProvider \in {"deepseek", "openai", ""} :
               call = ChatCall(req, traced, defaultProvider, <<"deepseek", "chat">>)
       \/ \E modelName \in RequestModels : call = InferCall(modelName)

NextConfig ==
    \/ BuildLLMConfig
    \/ PreSnapshotState
    \/ ExecuteChat
    \/ ExecuteAgent
    \/ InferProvider

SpecConfig == InitConfig /\ [][NextConfig]_vars

\* the traces a cost analysis can be given: up to MaxTraces rows with distinct
\* ids, in any order, with costs on both sides of the impact thresholds
AnalysisTraces ==
    LET rows == [id : 1..MaxTraces, costAPI : {MediumImpact, MediumImpact + 1, HighImpact + 1},
                 costTokens : {0, 3}]
    IN UNION {{trs \in [1..n -> rows] : \A i, j \in 1..n : i # j => trs[i].id # trs[j].id}
              : n \in 0..MaxTraces}

InitAnalysis ==
    /\ now = 0
    /\ faults = 0
    /\ sessions = [s \in SessionIds |->
                     [totalTokens |-> QuotaTokens, usedTokens |-> 0,
                      totalCost |-> QuotaCost, usedCost |-> 0]]
    /\ messages = {}
    /\ traces = [i \in TraceIds |-> NoTraceRow]
    /\ steps = [i \in TraceIds |-> <<>>]
    /\ turn = [t \in Turns |-> IdleTurn]
    /\ rec = [c \in Recorders |-> IdleRec]
    /\ added = NoneAdded(0, 0)
    /\ endLog = NoEnd
    /\ client = NewGRPCLLMClient
    /\ \E trs \in AnalysisTraces :
         \/ call = AnalysisCall("analyze", trs, AnalyzeTopN)
         \/ \E topN \in 0..MaxTraces : call = AnalysisCall("hotspots", trs, topN)

NextAnalysis ==
    \/ Analyze
    \/ IdentifyHotspots

SpecAnalysis == InitAnalysis /\ [][NextAnalysis]_vars

\* streaming turns on their own: ChatStream on a request that passes validation
NextStream ==
    \/ \E t \in Turns : Begin(t, "stream", "ok")
    \/ \E t \in Turns : Validate(t)
    \/ \E t \in Turns : PreSnapshot(t)
    \/ \E t \in Turns : StreamOpen(t)
    \/ \E t \in Turns : StreamEnd(t)
    \/ \E t \in Turns, type \in ChunkTypes, usage \in {Null, MaxUsage},
          cost \in {MaxCost} : StreamChunk(t, type, usage, cost)
    \/ \E t \in Turns : SaveMessages(t)
    \/ \E t \in Turns : IncrementBudget(t)
    \/ \E t \in Turns : PostSnapshot(t)
    \/ \E t \in Turns : EndCompleted(t)
    \/ \E t \in Turns : EmitError(t)
    \/ \E t \in Turns : EmitDone(t)
    \/ \E t \in Turns : PollerCheck(t)
    \/ \E t \in Turns : ClientDisconnect(t)
    \/ \E t \in Turns : DisconnectWatcher(t)
    \/ Tick

\* the tracker's two goroutines are scheduled: the poller's ticker keeps
\* firing and the watcher runs once the request context is done
SpecCancel ==
    /\ Init /\ [][NextStream]_vars
    /\ \A t \in Turns : WF_vars(PollerCheck(t)) /\ WF_vars(DisconnectWatcher(t))

\* stream.Recv under a cancelled context returns
RecvCanceled(t) == turn[t].supDone /\ StreamEnd(t)

\* the statements of ChatStream after ExecuteChatStream has returned
HandlerStep(t) ==
    \/ SaveMessages(t)
    \/ IncrementBudget(t)
    \/ PostSnapshot(t)
    \/ EndCompleted(t)
    \/ EmitError(t)
    \/ EmitDone(t)

\* time passes, the goroutines are scheduled, a cancelled Recv returns and
\* the handler's goroutine runs
SpecStream ==
    /\ Init /\ [][NextStream]_vars
    /\ WF_vars(Tick)
    /\ \A t \in Turns : /\ WF_vars(PollerCheck(t))
                         /\ WF_vars(DisconnectWatcher(t))
                         /\ WF_vars(RecvCanceled(t))
                         /\ WF_vars(HandlerStep(t))

\* -------------------------------------------------------------- properties
Terminal(status) == status \in TerminalStatuses

Returned(t) == turn[t].pc = "done"

\* C1: every turn whose StartTrace succeeded has, when the handler returns and
\* no store write failed, a trace whose status was written exactly once, to a
\* terminal value.
C1_TraceClosedOnReturn ==
    \A t \in Turns :
        (Returned(t) /\ turn[t].trace # NoTrace /\ faults = 0 /\ ~turn[t].clientGone)
        => /\ Terminal(traces[turn[t].trace].status)
           /\ traces[turn[t].trace].statusWrites = 1

\* the upstream call of a streaming turn did not complete normally
Abnormal(r) ==
    \/ r.upstream \in {"rpc_error", "error_chunk", "callback_error"}
    \/ r.cancelBy \in {"activity", "total", "client"} /\ r.upstream = "canceled"

\* C2: a streaming turn whose upstream call ended abnormally (RPC error, error
\* chunk, supervisor timeout, client disconnect) has, when the handler returns,
\* a trace with status failed.
C2_AbnormalStreamFailed ==
    \A t \in Turns :
        (Returned(t) /\ turn[t].kind = "stream" /\ turn[t].trace # NoTrace
            /\ faults = 0 /\ Abnormal(turn[t]))
        => traces[turn[t].trace].status = "failed"

TerminalEvents(s) == {i \in DOMAIN s : s[i] \in {"done", "error"}}

\* C3: at most one done or error event is written on a stream, and it is the
\* last event written.
C3_OneTerminalEvent ==
    \A t \in Turns :
        LET s == turn[t].sse IN
        /\ Cardinality(TerminalEvents(s)) <= 1
        /\ TerminalEvents(s) \subseteq {Len(s)}

\* C4: the sequence numbers stored for a trace with n steps are exactly 1..n.
C4_SequenceDense ==
    \A tid \in TraceIds : SeqNums(steps[tid]) = 1..Len(steps[tid])

\* C5: no two steps stored for a trace by concurrent auto-assigning RecordStep
\* calls share a sequence number.
C5_SequenceUnique ==
    \A i, j \in DOMAIN steps[DirectTrace] :
        i # j => steps[DirectTrace][i].sequence # steps[DirectTrace][j].sequence

\* C6: whenever no RecordStep call is in progress, the cost fields of the trace
\* equal the sums over its stored steps, whatever the calls returned.
C6_CostIsSumOfSteps ==
    InFlight = 0
    => /\ traces[DirectTrace].costTokens = SumTokens(steps[DirectTrace])
       /\ traces[DirectTrace].costAPI = SumCost(steps[DirectTrace])

\* C7: under every interleaving of the budget stages of concurrent turns, each
\* step leaves usedTokens and usedCost no smaller than before and equal to the
\* initial value plus the sum of the amounts the calls that ran added.
C7_BudgetMonotoneSum ==
    [][/\ sessions'["s1"].usedTokens >= sessions["s1"].usedTokens
       /\ sessions'["s1"].usedCost >= sessions["s1"].usedCost
       /\ sessions'["s1"].usedTokens = added'.initTokens + added'.tokens
       /\ sessions'["s1"].usedCost = added'.initCost + added'.cost]_vars

\* C7 witness: the turns are in their budget stage at once, with amounts above
\* zero, after an earlier increment ran on a session that started with used
\* counters above zero.
C7_Witness ==
    /\ \A c \in Recorders : rec[c].pc = "budget" /\ rec[c].tokens > 0
    /\ added.ran >= 1
    /\ added.initTokens > 0
    /\ added.tokens > 0
    /\ added.cost > 0

Succeeded(r) ==
    IF r.kind = "unary" THEN r.upstream = "ok" ELSE r.upstream \in {"final", "eof"}

\* the client was given the successful outcome
Answered(r) ==
    IF r.kind = "unary" THEN r.http = 200 /\ r.code = ""
    ELSE r.http = 200 /\ r.sse # <<>> /\ r.sse[Len(r.sse)] = "done"

\* C9: a turn whose usage exceeds the session's quota is answered as a success,
\* and when its budget write ran the full usage is in the used counters.
C9_PostHocBudget ==
    \A t \in Turns :
        LET r == turn[t] IN
        (Returned(t) /\ Succeeded(r) /\ r.totalTokens > QuotaTokens)
        => /\ Answered(r)
           /\ r.budgetOK => /\ sessions[r.sid].usedTokens = r.totalTokens
                            /\ sessions[r.sid].usedCost = r.totalCost

\* C9 witness: a unary turn of more tokens than the quota returned 200 and its
\* usage is stored above the quota.
C9_Witness ==
    \E t \in Turns :
        /\ Returned(t) /\ turn[t].kind = "unary" /\ turn[t].http = 200
        /\ turn[t].budgetOK
        /\ turn[t].totalTokens > QuotaTokens
        /\ sessions["s1"].usedTokens = turn[t].totalTokens
        /\ sessions["s1"].usedTokens > sessions["s1"].totalTokens

\* C10: an EndTrace call with the terminal status the trace already has leaves
\* status and endedAt as they were and reports no error.
C10_RepeatEndTraceIdempotent ==
    (faults = 0 /\ Terminal(endLog.status) /\ endLog.before[1] = endLog.status)
    => /\ endLog.after = endLog.before
       /\ endLog.err = ""

\* C11: an EndTrace / EndTraceWithError call with a terminal status other than
\* the terminal status the trace already has fails with a conflict error and
\* leaves status and endedAt as they were.
C11_DifferingTerminalConflict ==
    (faults = 0 /\ Terminal(endLog.status) /\ Terminal(endLog.before[1])
        /\ endLog.before[1] # endLog.status)
    => /\ endLog.err = "conflict"
       /\ endLog.after = endLog.before

\* amounts of the RecordStep calls that inserted their step and have not yet
\* run their UpdateCost, over recorders 1..n
RECURSIVE PendingTokens(_)
PendingTokens(n) ==
    IF n = 0 THEN 0
    ELSE (IF rec[n].pc = "cost" THEN rec[n].tokens ELSE 0) + PendingTokens(n - 1)

RECURSIVE PendingCost(_)
PendingCost(n) ==
    IF n = 0 THEN 0
    ELSE (IF rec[n].pc = "cost" THEN rec[n].cost ELSE 0) + PendingCost(n - 1)

\* C12: under every interleaving of concurrent UpdateCost calls on one trace,
\* none of which failed, the trace's cost fields equal the sum of the amounts
\* of the calls that ran (the stored steps' amounts less those still pending).
C12_AddCostAccumulates ==
    faults = 0
    => /\ traces[DirectTrace].costTokens + PendingTokens(MaxRecorders)
            = SumTokens(steps[DirectTrace])
       /\ traces[DirectTrace].costAPI + PendingCost(MaxRecorders)
            = SumCost(steps[DirectTrace])

\* C12 witness: two UpdateCost calls with different amounts are pending at once
\* on a trace that an earlier call already charged.
C12_Witness ==
    /\ faults = 0
    /\ traces[DirectTrace].costTokens > 0
    /\ \E c, d \in Recorders :
         /\ rec[c].pc = "cost" /\ rec[d].pc = "cost"
         /\ rec[c].tokens > rec[d].tokens /\ rec[d].cost > rec[c].cost

\* C13: a turn whose upstream call succeeded is answered with the successful
\* outcome (unary: 200 with the content; streaming: events ending in done),
\* whichever tracer, message and budget writes failed.
C13_FailuresNotVisible ==
    \A t \in Turns :
        (Returned(t) /\ Succeeded(turn[t]))
        => /\ Answered(turn[t])
           /\ turn[t].kind = "unary" => turn[t].content = 1

\* C13 witness: a unary turn was answered 200 although every write after the
\* upstream call failed: no message, no budget, the trace left running with
\* no step beyond the pre_llm snapshot.
C13_Witness ==
    \E t \in Turns :
        LET r == turn[t] IN
        /\ Returned(t) /\ r.kind = "unary" /\ Succeeded(r) /\ Answered(r)
        /\ ~r.savedUser /\ ~r.savedAsst /\ ~r.budgetOK
        /\ r.trace # NoTrace
        /\ traces[r.trace].status = "running"
        /\ Len(steps[r.trace]) = 1
        /\ sessions["s1"].usedTokens = 0 /\ r.totalTokens > 0

\* the supervisor's poller cancelled the turn's context and that ended the
\* upstream call
TimedOut(r) ==
    r.kind = "stream" /\ r.cancelBy \in {"activity", "total"} /\ r.upstream = "canceled"

\* C14: a streaming turn that the supervisor cancelled ends, after the events
\* already forwarded, with an error event whose message names the limit that
\* fired, and without a done event.
C14_TimeoutReported ==
    \A t \in Turns :
        LET r == turn[t] IN
        (Returned(t) /\ TimedOut(r))
        => /\ r.sse # <<>>
           /\ r.sse[Len(r.sse)] = "error"
           /\ r.code = (IF r.cancelBy = "activity" THEN "activity timeout"
                         ELSE "total timeout")
           /\ \A i \in DOMAIN r.sse : r.sse[i] # "done"

\* the client went away during the stream: the disconnect watcher stopped the
\* tracker and that ended the upstream call
Disconnected(r) ==
    r.kind = "stream" /\ r.clientGone /\ r.cancelBy = "client" /\ r.upstream = "canceled"

\* C15: a streaming turn whose upstream call was ended by the client's
\* disconnect writes no done event.
C15_NoDoneAfterDisconnect ==
    \A t \in Turns :
        (Returned(t) /\ Disconnected(turn[t]))
        => \A i \in DOMAIN turn[t].sse : turn[t].sse[i] # "done"

\* C16: whenever the poller cancels the context while the last UpdateActivity
\* is less than ActivityTimeout old, the time is at or past
\* totalStart + MaxTotalTimeout.
C16_NoEarlyCancel ==
    [][\A t \in Turns :
         (/\ turn[t].cancelBy = "none"
          /\ turn'[t].cancelBy \in {"activity", "total"}
          /\ now - turn[t].lastActivity < ActivityTimeout)
         => now >= turn[t].totalStart + MaxTotalTimeout]_vars

\* C16 witness: the poller cancelled a tracker for the total limit, its
\* activity being within the activity limit.
C16_Witness ==
    \E t \in Turns :
        /\ turn[t].kind = "tracker" /\ turn[t].supDone
        /\ turn[t].cancelBy = "total"

\* C17 (as stated): once monitoring, no tick of the poller passes without
\* cancellation after one of the two limits was exceeded.
C17_NoMissedTimeout ==
    \A t \in Turns : ~turn[t].missed

\* C17 (amended): once monitoring, an exceeded total limit leads to
\* cancellation, and an exceeded limit leads to cancellation unless an
\* UpdateActivity ends the gap before the poller looks.
C17_StandingTimeoutCancels ==
    \A t \in Turns :
        /\ (Monitoring(t) /\ now - turn[t].totalStart > MaxTotalTimeout)
               ~> turn[t].supDone
        /\ (Monitoring(t) /\ shouldTimeout(turn[t], now))
               ~> (turn[t].supDone \/ ~shouldTimeout(turn[t], now))

\* C17 witness: the total limit was exceeded and the poller cancelled and left.
C17_Witness ==
    \E t \in Turns :
        /\ turn[t].kind = "tracker" /\ turn[t].poller = "exited"
        /\ turn[t].cancelBy \in {"activity", "total"}
        /\ now - turn[t].totalStart > MaxTotalTimeout

\* a Close() call is inside the once function
InOnce(c) == client.call[c].pc \in {"store", "conn", "clear", "finish"}

\* C18: whatever the number and the interleaving of the Close() calls, the
\* connection's Close is called at most once, it has been called exactly once
\* (and the client is marked closed, its connection reference cleared) as soon
\* as any Close() has returned, and a Close() that waits on the once primitive
\* waits for a call that is running the close function or has finished it.
C18_CloseOnce ==
    /\ client.closes <= 1
    /\ client.returned =>
          (client.closes = 1 /\ client.closed /\ client.conn = "nil")
    /\ \A c \in Recorders : client.call[c].pc = "wait" =>
          (client.once = "done" \/ \E d \in Recorders : InOnce(d))

C18_Witness ==
    /\ client.returned
    /\ client.closes = 1
    /\ \A c \in Recorders :
         /\ client.call[c].op = "Close" /\ client.call[c].pc = "idle"
         /\ ~client.call[c].late

\* C19: an operation that started after some Close() had returned never gets
\* past the closed check: it issues no RPC, invokes no callback, and when it
\* has returned its error is the client-closed error.
C19_ClosedAfterClose ==
    \A c \in Recorders :
        (client.call[c].late /\ client.call[c].op \in ClientOps)
        => /\ client.call[c].pc \in {"check", "idle"}
           /\ ~client.call[c].rpc
           /\ ~client.call[c].callback
           /\ client.call[c].pc = "idle" => client.call[c].err = ErrClientClosed

C19_Witness ==
    \E c \in Recorders :
        /\ client.call[c].late
        /\ client.call[c].op = "ExecuteAgentStream"
        /\ client.call[c].pc = "idle"
        /\ client.call[c].err = ErrClientClosed

\* the SSE records of the chunks: all of sse but the handler's own last event
ChunkRecords(r) == SubSeq(r.sse, 1, Len(r.sse) - 1)

\* ExecuteChatStream returned nil
StreamSucceeded(r) == r.kind = "stream" /\ r.upstream \in {"eof", "final", "error_chunk", "canceled"}

\* C20 as stated: when ChatStream has returned, the SSE records written for
\* chunks are exactly the chunks the upstream delivered, one record per chunk
\* in arrival order, and after a successful stream they are followed by one
\* done record.
C20_RelayOrder ==
    \A t \in Turns :
        (Returned(t) /\ turn[t].kind = "stream" /\ turn[t].upstream # "none")
        => /\ ChunkRecords(turn[t]) = turn[t].delivered
           /\ StreamSucceeded(turn[t]) => turn[t].sse = Append(turn[t].delivered, "done")

\* C20 amended: the records written for chunks are always a prefix of the
\* delivered chunks, in arrival order; they are all of them unless a write to
\* the client failed, in which case the chunk whose write failed is the last
\* one delivered and the only one missing, and the stream ends with the
\* handler's error event; a successful stream is followed by one done record.
C20_RelayOrderWhileWritable ==
    \A t \in Turns :
        (Returned(t) /\ turn[t].kind = "stream" /\ turn[t].upstream # "none")
        => LET r == turn[t]
               n == Len(r.delivered)
           IN  IF r.upstream = "callback_error"
               THEN /\ r.clientGone
                    /\ n >= 1
                    /\ r.sse = Append(SubSeq(r.delivered, 1, n - 1), "error")
               ELSE /\ ChunkRecords(r) = r.delivered
                    /\ StreamSucceeded(r) => r.sse = Append(r.delivered, "done")

C20_Witness ==
    \E t \in Turns :
        /\ Returned(t) /\ turn[t].kind = "stream" /\ turn[t].upstream = "final"
        /\ Len(turn[t].delivered) = MaxChunks
        /\ turn[t].delivered[1] # turn[t].delivered[2]
        /\ turn[t].sse = Append(turn[t].delivered, "done")

\* snapshots of one stage among the steps ss
CountStage(ss, stage) ==
    Cardinality({i \in 1..Len(ss) : ss[i].stepType = "snapshot" /\ ss[i].stage = stage})

C22_UnaryFailureFailed ==
    \A t \in Turns :
        (Returned(t) /\ turn[t].kind = "unary" /\ turn[t].upstream = "rpc_error"
            /\ faults = 0)
        => /\ turn[t].http = 500 /\ turn[t].code = "CHAT_EXECUTION_FAILED"
           /\ turn[t].trace # NoTrace => traces[turn[t].trace].status = "failed"

\* the upstream call of the turn did not complete successfully
Unsuccessful(r) ==
    IF r.kind = "unary" THEN r.upstream = "rpc_error"
    ELSE r.upstream \in {"rpc_error", "error_chunk", "canceled"}

\* C23: when the handler has returned from a turn whose upstream call did not
\* complete successfully, the session's used counters are what they were
\* before the turn and no assistant message of the turn is stored.
C23_FailedTurnNoEffects ==
    \A t \in Turns :
        (Returned(t) /\ Unsuccessful(turn[t]) /\ turn[t].sid \in DOMAIN sessions)
        => /\ sessions[turn[t].sid].usedTokens = added.initTokens
           /\ sessions[turn[t].sid].usedCost = added.initCost
           /\ \A m \in messages : ~(m.turn = t /\ m.role = "assistant")

\* C24: when the handler has returned from a turn whose upstream call
\* succeeded, with no store failure and the client still connected, the
\* request's messages and one assistant message of the turn are stored, on the
\* unary and on the streaming path.
C24_MessagesPerTurn ==
    \A t \in Turns :
        (Returned(t) /\ Succeeded(turn[t]) /\ Answered(turn[t])
            /\ faults = 0 /\ ~turn[t].clientGone)
        => /\ [sid |-> turn[t].sid, role |-> "user", turn |-> t] \in messages
           /\ [sid |-> turn[t].sid, role |-> "assistant", turn |-> t] \in messages

\* the configuration pipeline of a chat request has come to its end
ConfigSettled == call.op = "chat" /\ call.pc \in {"done", "panicked", "sent"}

\* C25: a request that names provider and model and omits temperature and
\* max_tokens is not rejected and reaches the upstream with temperature 0.7
\* and maxTokens 2000.
C25_ConfigDefaulting ==
    (ConfigSettled /\ call.req.provider # "" /\ call.req.model # NoModel
        /\ call.req.temperature = 0 /\ call.req.maxTokens = 0)
    => /\ call.pc = "sent"
       /\ call.sent.temperature = DefaultTemperature
       /\ call.sent.maxTokens = DefaultMaxTokens

\* the provider table as the specification words it: claude-3-* and
\* claude-3-5-* are all names that begin with the parts claude, 3
TableProvider(modelName) ==
    CASE modelName \in {<<"deepseek", "chat">>, <<"deepseek", "reasoner">>} -> "deepseek"
      [] Len(modelName) >= 3 /\ modelName[1] = "claude" /\ modelName[2] = "3" -> "anthropic"
      [] modelName \in {<<"qwen", "turbo">>, <<"qwen", "plus">>, <<"qwen", "max">>,
                        <<"qwen", "max", "longcontext">>} -> "qwen"
      [] modelName \in {<<"ernie", "bot">>, <<"ernie", "bot", "turbo">>, <<"ernie", "bot", "4">>,
                        <<"ernie", "speed">>} -> "ernie"
      [] modelName \in {<<"glm", "4">>, <<"glm", "4v">>, <<"glm", "3", "turbo">>} -> "chatglm"
      [] OTHER -> "openai"

\* C26: a request that omits the provider (with or without a model name) and
\* is otherwise valid is neither rejected nor aborted: it reaches the upstream,
\* with the provider the table gives for its model name, or with the
\* deployment's default provider when the model is omitted too.
C26_OmittedProviderServed ==
    (ConfigSettled /\ call.req.provider = ""
        /\ call.req.temperature <= TemperatureLimit
        /\ call.req.maxTokens \in 1..MaxTokensLimit)
    => /\ call.pc = "sent"
       /\ call.sent.provider =
             IF call.req.model = NoModel THEN getProviderFromType(call.defaultProvider)
             ELSE TableProvider(call.req.model)

\* C27: inferProviderFromModel returns, for every model name, the provider the
\* table gives.
C27_InferenceAgreesWithTable ==
    (call.op = "infer" /\ call.pc = "returned")
    => call.provider = TableProvider(call.model)

\* the sum of f over the index set idx
RECURSIVE SumOver(_, _)
SumOver(idx, f) ==
    IF idx = {} THEN 0
    ELSE LET i == CHOOSE k \in idx : TRUE IN f[i] + SumOver(idx \ {i}, f)

C29_HotspotsOrdered ==
    (call.op = "hotspots" /\ call.pc = "returned")
    => LET trs == call.traces
           H == call.hotspots
           n == IF call.topN < Len(trs) THEN call.topN ELSE Len(trs)
       IN /\ Len(H) = n
          /\ \A i \in 1..n : \E k \in 1..Len(trs) :
                /\ trs[k].id = H[i].traceId /\ trs[k].costAPI = H[i].cost
                /\ H[i].impact = (IF H[i].cost > HighImpact THEN "high"
                                  ELSE IF H[i].cost > MediumImpact THEN "medium" ELSE "low")
          /\ \A i, j \in 1..n : i < j =>
                \/ H[i].cost > H[j].cost
                \/ H[i].cost = H[j].cost /\ H[i].traceId < H[j].traceId
          /\ \A k \in 1..Len(trs) :
                (\A i \in 1..n : H[i].traceId # trs[k].id) =>
                    \A i \in 1..n :
                        \/ H[i].cost > trs[k].costAPI
                        \/ H[i].cost = trs[k].costAPI /\ H[i].traceId < trs[k].id

\* C30: the recording calls of a turn run one after the other, so the rows of
\* its trace are stored in recording order; a row recorded earlier has a lower
\* sequence than every row recorded later.
C30_SequenceFollowsRecording ==
    \A t \in Turns :
        \A i, j \in 1..Len(steps[t]) :
            i < j => steps[t][i].sequence < steps[t][j].sequence

\* C31: a RecordStep call whose step was inserted and whose cost-add write
\* failed returns no error (a returned call's locals keep the error it
\* returned; "failed to update trace cost" marks exactly that case).
C31_CostFailureNotReturned ==
    \A c \in Recorders :
        rec[c].pc = "idle" => rec[c].err # "failed to update trace cost"

\* the answers of the pipeline's steps 1-4
Rejections == {"INVALID_SESSION_ID", "SESSION_NOT_FOUND", "INVALID_INPUT", "INVALID_CONFIG"}

\* C32: a turn rejected by one of the steps 1-4 has no trace row and has
\* written nothing to the step, message and session stores.
C32_RejectedTurnWritesNothing ==
    \A t \in Turns :
        (Returned(t) /\ turn[t].code \in Rejections)
        => /\ traces[t] = NoTraceRow
           /\ steps[t] = <<>>
           /\ messages = {}
           /\ \A sid \in SessionIds : /\ sessions[sid].usedTokens = added.initTokens
                                      /\ sessions[sid].usedCost = added.initCost

\* the upstream call of a streaming turn was ended by the cancellation of the
\* supervised context and the handler wrote its error event
CauseReported(r) ==
    /\ r.kind = "stream"
    /\ r.err = "failed to start stream: context canceled"
    /\ r.sse # <<>> /\ r.sse[Len(r.sse)] = "error"

\* what cancelled the supervised context, as a message
CauseMessage(by) ==
    IF by = "client" THEN "client disconnected"
    ELSE IF by = "activity" THEN "activity timeout"
    ELSE IF by = "total" THEN "total timeout"
    ELSE "none"

\* C33: when the handler reports the failure of a streaming turn whose upstream
\* call was ended by the cancellation of the supervised context, the message
\* of its error event names what cancelled the context: client disconnected,
\* activity timeout or total timeout.
C33_CauseAccurate ==
    \A t \in Turns :
        (Returned(t) /\ CauseReported(turn[t]))
        => turn[t].code = CauseMessage(turn[t].cancelBy)

\* C34: the context passed to the upstream stream call is the supervised
\* context: a cancel by the poller has cancelled it, and once the request
\* context is done during the stream the supervised context is eventually
\* cancelled.
C34_EitherSideCancels ==
    /\ [](\A t \in Turns : turn[t].cancelBy \in {"activity", "total"} => turn[t].supDone)
    /\ \A t \in Turns :
          (turn[t].pc = "streaming" /\ turn[t].clientGone) ~> turn[t].supDone

\* the client went away during the stream, the watcher cancelled the
\* supervised context and the upstream call ended by it
C34_Witness ==
    \E t \in Turns :
        /\ turn[t].clientGone /\ turn[t].cancelBy = "client"
        /\ turn[t].upstream = "canceled"

\* the chunk types that end the receive loop, as the claim names them
LastChunks == {"final_response", "error"}

\* C35: each change of the record of callback invocations is one invocation
\* for one received chunk, appended in arrival order; none follows a
\* final_response or error chunk, none follows a callback error, and a callback
\* error makes ExecuteAgentStream return an error.
C35_CallbackPerChunk ==
    [][\A t \in Turns :
          turn'[t].delivered # turn[t].delivered
          => /\ \E type \in ChunkTypes : turn'[t].delivered = Append(turn[t].delivered, type)
             /\ turn'[t].chunks = turn[t].chunks + 1
             /\ \A i \in DOMAIN turn[t].delivered : turn[t].delivered[i] \notin LastChunks
             /\ turn[t].upstream = "none"
             /\ turn'[t].upstream = "callback_error"
                  => turn'[t].pc = "emit_error" /\ turn'[t].err = "callback error"]_vars

\* two chunks were delivered, the second a final_response that ended the call
C35_Witness ==
    \E t \in Turns :
        /\ Len(turn[t].delivered) = 2
        /\ turn[t].delivered[2] = "final_response"
        /\ turn[t].upstream = "final"

\* C36: under fair scheduling, a streaming turn whose upstream stream is open
\* eventually has its handler returned, with a done or error event as the
\* last event written, whatever the upstream sends and even when it goes
\* silent without closing the stream.
C36_StreamTerminates ==
    \A t \in Turns :
        (turn[t].kind = "stream" /\ turn[t].pc = "streaming")
        ~> (Returned(t) /\ turn[t].sse # <<>>
                        /\ turn[t].sse[Len(turn[t].sse)] \in {"done", "error"})

\* the upstream never sent a chunk nor closed the stream, the client stayed,
\* the poller cancelled the context and the handler returned
C36_Witness ==
    \E t \in Turns :
        /\ Returned(t) /\ turn[t].kind = "stream"
        /\ turn[t].delivered = <<>> /\ ~turn[t].clientGone
        /\ turn[t].cancelBy \in {"activity", "total"}
        /\ turn[t].upstream = "canceled"

\* getDefaultStreamTimeoutConfig: InitialTimeout, 2 minutes, on the scale of
\* ActivityTimeout and MaxTotalTimeout (above the first, not above the second)
InitialTimeout == 3

\* C37: while no chunk of the stream has arrived, a supervised context that
\* the poller has cancelled is older than InitialTimeout.
C37_InitialWait ==
    \A t \in Turns :
        LET r == turn[t] IN
        (r.pc = "streaming" /\ r.delivered = <<>> /\ r.cancelBy \in {"activity", "total"})
        => now - r.totalStart > InitialTimeout

\* C38: when the handler has returned from a turn whose StartTrace succeeded,
\* the metadata of the trace row in the store names the turn's source:
\* http_api for Chat, http_api_stream for ChatStream.
C38_MetadataStored ==
    \A t \in Turns :
        (Returned(t) /\ turn[t].trace # NoTrace)
        => traces[turn[t].trace].metadata = Source(turn[t].kind)

\* the traces of a session
TracesOf(sid) == {i \in TraceIds : traces[i].sessionId = sid}

\* C39: in every state where no turn is in flight, no store write has failed
\* and no request context was cancelled, each session's usedTokens is the sum
\* of costTokens over its traces and its usedCost the sum of their costAPI.
C39_BudgetEqualsTraceCosts ==
    (/\ \A t \in Turns : turn[t].pc \in {"idle", "done"} /\ ~turn[t].clientGone
     /\ faults = 0)
    => \A sid \in SessionIds :
          /\ sessions[sid].usedTokens
               = SumOver(TracesOf(sid), [i \in TraceIds |-> traces[i].costTokens])
          /\ sessions[sid].usedCost
               = SumOver(TracesOf(sid), [i \in TraceIds |-> traces[i].costAPI])

\* the step type of a turn's LLM call
LLMStepType(kind) == IF kind = "unary" THEN "llm_call" ELSE "llm_call_stream"

\* the steps of type among the steps ss
CountType(ss, type) == Cardinality({i \in 1..Len(ss) : ss[i].stepType = type})

\* C40: a turn's trace whose status is completed has, when no store write
\* failed, exactly one LLM step among its steps: llm_call for Chat,
\* llm_call_stream for ChatStream.
C40_CompletedHasOneLLMStep ==
    \A t \in Turns :
        (/\ turn[t].trace # NoTrace
         /\ traces[turn[t].trace].status = "completed"
         /\ faults = 0 /\ ~turn[t].clientGone)
        => CountType(steps[turn[t].trace], LLMStepType(turn[t].kind)) = 1

====
